---- MODULE Spec2Model ----
(***************************************************************************)
(* Model of generate_config.py: the scan of the `notes` directory, the     *)
(* front-matter extraction, the record construction and the writing of     *)
(* config.json.                                                            *)
(*                                                                         *)
(* Text is a sequence of one-character strings, except inside file         *)
(* contents, where a token may stand for a run of characters in which no   *)
(* '---' begins or ends ("id: " is the key id, its colon and the blank     *)
(* after it; "2020-01-01" is a date).  Every other dash of a content is a  *)
(* token of its own, so that startswith and split see the same '---'       *)
(* substrings as in the source.                                            *)
(***************************************************************************)
EXTENDS Integers, Sequences, FiniteSets, TLC

\* ------------------------------------------------------------------ bounds
\* Most front-matter lines of a generated file content.
MaxLines == 2
\* Most runs of main in one behaviour.
MaxRuns == 2
\* Most changes made to the file system between the runs of one behaviour.
MaxEdits == 1

\* ----------------------------------------------------------------- strings
RECURSIVE Flatten(_)
\* ''.join(parts)
Flatten(parts) ==
    IF parts = <<>> THEN <<>> ELSE Head(parts) \o Flatten(Tail(parts))

\* Unicode code points of the characters file names are made of.
Ord ==
    [c \in {".", "B", "D", "M", "\\", "a", "d", "m", "t"} |->
        CASE c = "."  -> 46
          [] c = "B"  -> 66
          [] c = "D"  -> 68
          [] c = "M"  -> 77
          [] c = "\\" -> 92
          [] c = "a"  -> 97
          [] c = "d"  -> 100
          [] c = "m"  -> 109
          [] c = "t"  -> 116]

\* str.lower(), character by character.
LowerChar(c) ==
    CASE c = "B" -> "b"
      [] c = "D" -> "d"
      [] c = "M" -> "m"
      [] OTHER   -> c

Lower(s) == [i \in 1..Len(s) |-> LowerChar(s[i])]

\* str.endswith(suffix)
EndsWith(s, suffix) ==
    /\ Len(s) >= Len(suffix)
    /\ SubSeq(s, Len(s) - Len(suffix) + 1, Len(s)) = suffix

\* str.startswith(prefix)
StartsWith(s, prefix) ==
    /\ Len(s) >= Len(prefix)
    /\ SubSeq(s, 1, Len(prefix)) = prefix

\* str.replace(old, new) for a one-character `old`.
Replace(s, old, new) == [i \in 1..Len(s) |-> IF s[i] = old THEN new ELSE s[i]]

\* str.rfind(c): the last position of c in s, 0 when there is none
\* (positions count from 1 here, from 0 in Python, where none is -1).
RFind(s, c) ==
    LET hits == {i \in 1..Len(s) : s[i] = c}
    IN  IF hits = {} THEN 0 ELSE CHOOSE i \in hits : \A j \in hits : j <= i

\* The comparison of str that sorted() uses: code point by code point, a
\* proper prefix before the longer string.
RECURSIVE StrLess(_, _)
StrLess(s, t) ==
    IF t = <<>> THEN FALSE
    ELSE IF s = <<>> THEN TRUE
    ELSE IF Head(s) # Head(t) THEN Ord[Head(s)] < Ord[Head(t)]
    ELSE StrLess(Tail(s), Tail(t))

\* sorted(names) of a listing, which holds every name once.
RECURSIVE Sorted(_)
Sorted(names) ==
    IF names = {} THEN <<>>
    ELSE LET least == CHOOSE n \in names : \A o \in names \ {n} : StrLess(n, o)
         IN  <<least>> \o Sorted(names \ {least})

\* os.path.splitext(filename)[0] for a name without a directory part: the
\* extension starts at the last dot, unless only dots come before that dot.
SplitextRoot(filename) ==
    LET dotIndex == RFind(filename, ".")
    IN  IF /\ dotIndex > 0
           /\ \E i \in 1..(dotIndex - 1) : filename[i] # "."
        THEN SubSeq(filename, 1, dotIndex - 1)
        ELSE filename

\* os.path.join(notes_dir, filename).replace('\\', '/')
FilePath(notes_dir, filename) ==
    Replace(notes_dir \o <<"/">> \o filename, "\\", "/")

\* The filter of the scan: filename.lower().endswith('.md')
IsMarkdown(filename) == EndsWith(Lower(filename), <<".", "m", "d">>)

\* ------------------------------------------------------------ front-matter
\* The values yaml.safe_load builds.  t is the Python type; s the text of a
\* str, int or date; items the elements of a list, each a scalar [t, s].
Scalar(t, s) == [t |-> t, s |-> s]
Val(t, s, items) == [t |-> t, s |-> s, items |-> items]
NoneVal == Val("null", <<>>, <<>>)

\* The keys the record builder looks up.
Keys == {"id", "title", "tags", "links"}
KeyOf(tok) ==
    CASE tok = "id: "    -> "id"
      [] tok = "title: " -> "title"
      [] tok = "tags: "  -> "tags"
      [] tok = "links: " -> "links"
KeyToks == {"id: ", "title: ", "tags: ", "links: "}

\* The tokens a plain scalar is made of.
ScalarToks == {"a", "b", "1", "-", "2020-01-01", "2020-13-01"}

EmptyMap == [k \in {} |-> NoneVal]

\* dict.get(key): None when the key is absent.
Get(meta, key) == IF key \in DOMAIN meta THEN meta[key] ELSE NoneVal

\* The first position >= from at which '---' occurs in s, 0 when none.
FindDashes(s, from) ==
    LET hits == {i \in from..(Len(s) - 2) :
                    s[i] = "-" /\ s[i + 1] = "-" /\ s[i + 2] = "-"}
    IN  IF hits = {} THEN 0 ELSE CHOOSE i \in hits : \A j \in hits : i <= j

\* content.split('---', 2): cut at the first two occurrences of '---', found
\* from left to right and not overlapping; at most three parts.
Split3(content) ==
    LET i1 == FindDashes(content, 1)
        i2 == FindDashes(content, i1 + 3)
    IN  IF i1 = 0 THEN <<content>>
        ELSE IF i2 = 0
             THEN <<SubSeq(content, 1, i1 - 1),
                    SubSeq(content, i1 + 3, Len(content))>>
             ELSE <<SubSeq(content, 1, i1 - 1),
                    SubSeq(content, i1 + 3, i2 - 1),
                    SubSeq(content, i2 + 3, Len(content))>>

\* text.split(sep) for a one-token separator.
RECURSIVE SplitOn(_, _)
SplitOn(text, sep) ==
    IF \A i \in 1..Len(text) : text[i] # sep THEN <<text>>
    ELSE LET i == CHOOSE h \in 1..Len(text) :
                     text[h] = sep /\ \A j \in 1..(h - 1) : text[j] # sep
         IN  <<SubSeq(text, 1, i - 1)>>
                \o SplitOn(SubSeq(text, i + 1, Len(text)), sep)

\* A plain scalar as YAML resolves it.  t = "error" stands for a raised
\* exception, whose class is s: a lone '-' is a sequence entry where none
\* is allowed (yaml.YAMLError), and a timestamp with month 13 makes
\* datetime.date raise ValueError out of the constructor.
ParseScalar(toks) ==
    IF toks = <<>> \/ \E i \in 1..Len(toks) : toks[i] \notin ScalarToks
        THEN Scalar("error", <<"YAMLError">>)
    ELSE IF toks = <<"-">> THEN Scalar("error", <<"YAMLError">>)
    ELSE IF toks = <<"2020-13-01">> THEN Scalar("error", <<"ValueError">>)
    ELSE IF toks = <<"2020-01-01">> THEN Scalar("date", toks)
    ELSE IF \A i \in 1..Len(toks) : toks[i] = "1" THEN Scalar("int", toks)
    ELSE Scalar("str", toks)

\* The first exception of a sequence of parsed values, as a value.
FirstError(values) ==
    LET bad == {i \in 1..Len(values) : values[i].t = "error"}
    IN  Val("error", values[CHOOSE i \in bad : \A j \in bad : i <= j].s, <<>>)

HasError(values) == \E i \in 1..Len(values) : values[i].t = "error"

\* The flow sequence of the parsed items.
FlowOf(items) ==
    IF HasError(items) THEN FirstError(items) ELSE Val("list", <<>>, items)

ScalarValue(sc) == Val(sc.t, sc.s, <<>>)

\* The value that follows a key on its line: nothing (null), '{}', a flow
\* sequence '[x, y]' of plain scalars, or a plain scalar.
ParseValue(toks) ==
    IF toks = <<>> THEN NoneVal
    ELSE IF toks = <<"{}">> THEN Val("dict", <<>>, <<>>)
    ELSE IF Head(toks) # "[" THEN ScalarValue(ParseScalar(toks))
    ELSE IF toks[Len(toks)] # "]" \/ Len(toks) < 2
    THEN Val("error", <<"YAMLError">>, <<>>)
    ELSE IF Len(toks) = 2 THEN Val("list", <<>>, <<>>)
    ELSE FlowOf([i \in 1..Len(SplitOn(SubSeq(toks, 2, Len(toks) - 1), ", ")) |->
                    ParseScalar(SplitOn(SubSeq(toks, 2, Len(toks) - 1), ", ")[i])])

IsPair(line) == Head(line) \in KeyToks

\* The value a line stands for: that of its key, or the line itself.
LineValue(line) == ParseValue(IF IsPair(line) THEN Tail(line) ELSE line)

\* The mapping of the lines `key: value`, given their values; a key given
\* twice keeps its last value.
MapOfLines(lines, values) ==
    [k \in {KeyOf(Head(lines[i])) : i \in 1..Len(lines)} |->
        values[CHOOSE i \in 1..Len(lines) :
                  /\ KeyOf(Head(lines[i])) = k
                  /\ \A j \in (i + 1)..Len(lines) : KeyOf(Head(lines[j])) # k]]

Loaded(kind, exc, map) == [kind |-> kind, exc |-> exc, map |-> map]

\* The document of the non-empty lines and their values.  Lines
\* `key: value` make a mapping ("dict"); no line at all makes None and one
\* line that is no `key: value` makes a scalar or a list (both "other");
\* anything else raises ("error", with the class of the exception).
LoadLines(lines, values) ==
    IF lines = <<>> THEN Loaded("other", <<>>, EmptyMap)
    ELSE IF HasError(values) THEN Loaded("error", FirstError(values).s, EmptyMap)
    ELSE IF \A i \in 1..Len(lines) : IsPair(lines[i])
    THEN Loaded("dict", <<>>, MapOfLines(lines, values))
    ELSE IF Len(lines) = 1 THEN Loaded("other", <<>>, EmptyMap)
    ELSE Loaded("error", <<"YAMLError">>, EmptyMap)

ValuesOf(lines) == LoadLines(lines, [i \in 1..Len(lines) |-> LineValue(lines[i])])

NonEmpty(line) == line # <<>>

\* yaml.safe_load(fm_text) on the modelled subset of YAML.
SafeLoad(fm_text) == ValuesOf(SelectSeq(SplitOn(fm_text, "\n"), NonEmpty))

\* Line 58: meta if isinstance(meta, dict) else {}, or the exception that
\* safe_load raised (exc, <<>> when none was).
MetaOf(loaded) ==
    IF loaded.kind = "error" THEN [exc |-> loaded.exc, meta |-> EmptyMap]
    ELSE IF loaded.kind = "dict" THEN [exc |-> <<>>, meta |-> loaded.map]
    ELSE [exc |-> <<>>, meta |-> EmptyMap]

\* Lines 54-57, given the parts of the split.
TryParts(parts) ==
    IF Len(parts) < 3 THEN [exc |-> <<>>, meta |-> EmptyMap]
    ELSE MetaOf(SafeLoad(parts[2]))

\* The body of the try block (lines 53-58): the mapping returned, or the
\* class of the exception raised in it.
TryBody(content) == TryParts(Split3(content))

\* Mutant of Caught: `except yaml.YAMLError` in place of `except Exception`.
CaughtYamlOnly(exc) == exc = <<"YAMLError">>

\* `except Exception` (line 59): every exception class the try block can
\* raise here derives from Exception, so all are caught.
Caught(exc) == exc \in {<<"YAMLError">>, <<"ValueError">>}

\* Lines 59-60: a caught exception makes the result the empty mapping.
Handle(body) ==
    IF body.exc # <<>> /\ Caught(body.exc)
    THEN [exc |-> <<>>, meta |-> EmptyMap]
    ELSE body

\* parse_markdown_front_matter(content): the mapping returned, and the class
\* of the exception that leaves the function (exc, <<>> when none does).
parse_markdown_front_matter(content) ==
    IF ~StartsWith(content, <<"-", "-", "-">>)
    THEN [exc |-> <<>>, meta |-> EmptyMap]
    ELSE Handle(TryBody(content))

\* --------------------------------------------------------------- the record
\* isinstance(v, str) and isinstance(v, list)
IsStr(v) == v.t = "str"
IsList(v) == v.t = "list"

\* Mutant of IdOf: the front-matter id is used whatever its type.
IdOfAnyType(meta, filename) ==
    IF "id" \in DOMAIN meta /\ meta["id"].t \in {"str", "int", "date"}
    THEN meta["id"].s ELSE SplitextRoot(filename)

\* Line 79
IdOf(meta, filename) ==
    IF IsStr(Get(meta, "id")) THEN Get(meta, "id").s ELSE SplitextRoot(filename)

\* Mutant of RecordOf: a tags or links value that is a string is wrapped
\* into a list of one.
RecordOfWrapsString(meta, id_, file) ==
    [id    |-> id_,
     title |-> IF IsStr(Get(meta, "title")) THEN Get(meta, "title").s ELSE id_,
     tags  |-> IF IsList(Get(meta, "tags")) THEN Get(meta, "tags").items
               ELSE IF IsStr(Get(meta, "tags"))
               THEN <<Scalar("str", Get(meta, "tags").s)>> ELSE <<>>,
     file  |-> file,
     links |-> IF IsList(Get(meta, "links")) THEN Get(meta, "links").items
               ELSE IF IsStr(Get(meta, "links"))
               THEN <<Scalar("str", Get(meta, "links").s)>> ELSE <<>>]

\* Lines 80-91, given id_.
RecordOf(meta, id_, file) ==
    [id    |-> id_,
     title |-> IF IsStr(Get(meta, "title")) THEN Get(meta, "title").s ELSE id_,
     tags  |-> IF IsList(Get(meta, "tags")) THEN Get(meta, "tags").items ELSE <<>>,
     file  |-> file,
     links |-> IF IsList(Get(meta, "links")) THEN Get(meta, "links").items ELSE <<>>]

\* Lines 79-91: the dictionary appended for a file with front-matter meta.
BuildRecord(meta, notes_dir, filename) ==
    RecordOf(meta, IdOf(meta, filename), FilePath(notes_dir, filename))

\* Lines 77-91: the dictionary appended for a file of this content.
NoteRecord(notes_dir, filename, content) ==
    BuildRecord(parse_markdown_front_matter(content).meta, notes_dir, filename)

\* ------------------------------------------------------------ json.dump
\* The text json.dump writes is a sequence of tokens; the indentation that
\* indent=2 adds is fixed by the structure and is left out.  TypeError marks
\* the place where the encoder meets a value it cannot serialize and raises.
TypeError == "<TypeError>"

\* A str between quotes; ensure_ascii=False leaves every character as it
\* is, except that a backslash is escaped.
JsonStr(s) ==
    <<"\"">>
        \o Flatten([i \in 1..Len(s) |->
                       IF s[i] = "\\" THEN <<"\\", "\\">> ELSE <<s[i]>>])
        \o <<"\"">>

JsonItem(item) ==
    CASE item.t = "str"  -> JsonStr(item.s)
      [] item.t = "int"  -> item.s
      [] item.t = "date" -> <<TypeError>>

\* ', '.join of the encoded parts.
RECURSIVE JoinComma(_)
JoinComma(parts) ==
    IF parts = <<>> THEN <<>>
    ELSE IF Len(parts) = 1 THEN parts[1]
    ELSE parts[1] \o <<",">> \o JoinComma(Tail(parts))

JsonList(items) ==
    <<"[">> \o JoinComma([i \in 1..Len(items) |-> JsonItem(items[i])]) \o <<"]">>

\* One record, its keys in the order of the dictionary literal (lines 84-91).
JsonRecord(r) ==
    <<"{", "\"id\": ">> \o JsonStr(r.id)
        \o <<",", "\"title\": ">> \o JsonStr(r.title)
        \o <<",", "\"tags\": ">> \o JsonList(r.tags)
        \o <<",", "\"file\": ">> \o JsonStr(r.file)
        \o <<",", "\"links\": ">> \o JsonList(r.links)
        \o <<"}">>

\* The encoding of {"notes": notes}.
Serialize(notes) ==
    <<"{", "\"notes\": ", "[">>
        \o JoinComma([i \in 1..Len(notes) |-> JsonRecord(notes[i])])
        \o <<"]", "}">>

\* The text up to the first TypeError mark, the whole text when it has none.
UpToError(text) ==
    IF \A i \in 1..Len(text) : text[i] # TypeError THEN text
    ELSE SubSeq(text, 1,
                (CHOOSE i \in 1..Len(text) :
                    text[i] = TypeError /\ \A j \in 1..(i - 1) : text[j] # TypeError) - 1)

\* What json.dump has written when it returns or raises: the chunks come
\* out one by one, so everything before the value that raises is written.
Written(notes) == UpToError(Serialize(notes))

HasTypeError(text) == \E i \in 1..Len(text) : text[i] = TypeError

\* json.dump(config, f) returns without raising.
Serializable(notes) == ~HasTypeError(Serialize(notes))

\* ------------------------------------------------------------ the inputs
\* notes_dir (line 97)
NotesDir == <<"n", "o", "t", "e", "s">>

\* The names a directory entry may have: B\a.MD, a.md and a.m in the
\* directories main scans; B.MD, .md and a.m.md too where one file is built.
DirNames ==
    {<<"B", "\\", "a", ".", "M", "D">>, <<"a", ".", "m", "d">>, <<"a", ".", "m">>}
FileNames ==
    DirNames \cup {<<"B", ".", "M", "D">>, <<".", "m", "d">>,
                   <<"a", ".", "m", ".", "m", "d">>}
\* d.md, which sorts after each of them.
LaterName == <<"d", ".", "m", "d">>

Dashes == <<"-", "-", "-">>

\* The lines a generated front-matter is made of.
Lines ==
    {<<"id: ", "a">>,
     <<"id: ", "1">>,
     <<"title: ", "b">>,
     <<"title: ", "a", "-", "-", "-", "b">>,
     <<"tags: ", "[", "a", ", ", "b", "]">>,
     <<"tags: ", "a">>,
     <<"tags: ", "[", "1", ", ", "a", "]">>,
     <<"tags: ", "[", "2020-13-01", "]">>,
     <<"links: ", "[", "b", ", ", "a", "]">>,
     <<"links: ", "{}">>,
     <<"links: ", "[", "2020-01-01", "]">>,
     <<"[", "a">>,
     <<"a">>}

\* Each line followed by its line break.
TextOf(lines) == Flatten([i \in 1..Len(lines) |-> lines[i] \o <<"\n">>])

\* The generated contents: an opening ('---' on its own line, '---' glued
\* to the first line, or none), up to MaxLines lines, a closing '---' line
\* or none, and the body of the note.
Openings == {Dashes \o <<"\n">>, Dashes, <<>>}
Closings == {Dashes \o <<"\n">>, <<>>}
Body == <<"a", "\n">>
AllContents ==
    {o \o TextOf(ls) \o c \o Body :
        o \in Openings,
        ls \in UNION {[1..n -> Lines] : n \in 0..MaxLines},
        c \in Closings}

\* The contents of the files of the directories main scans: no
\* front-matter, a complete one, a malformed one, one with a date in links.
PlainContent == Body
FullContent ==
    Dashes \o <<"\n">>
        \o TextOf(<<
             <<"id: ", "a">>, <<"title: ", "b">>,
             <<"tags: ", "[", "a", ", ", "b", "]">>,
             <<"links: ", "[", "b", ", ", "a", "]">> >>)
        \o Dashes \o <<"\n">> \o Body
MalformedContent ==
    Dashes \o <<"\n">> \o TextOf(<< <<"[", "a">> >>) \o Dashes \o <<"\n">> \o Body
DateContent ==
    Dashes \o <<"\n">> \o TextOf(<< <<"links: ", "[", "2020-01-01", "]">> >>)
        \o Dashes \o <<"\n">> \o Body
MainContents == {PlainContent, FullContent, MalformedContent, DateContent}

\* A directory entry: what open() and read() do with it.
File(content) == [readable |-> TRUE, content |-> content]
Unreadable == [readable |-> FALSE, content |-> <<>>]

\* config.json
NoConfig == [exists |-> FALSE, data |-> <<>>]
ConfigFile(data) == [exists |-> TRUE, data |-> data]
\* A config.json left by an earlier run over a directory that held old.md.
StaleConfig ==
    ConfigFile(Serialize(<< [id |-> <<"o", "l", "d">>, title |-> <<"o", "l", "d">>,
                             tags |-> <<>>,
                             file |-> NotesDir \o <<"/", "o", "l", "d", ".", "m", "d">>,
                             links |-> <<>>] >>))

\* --------------------------------------------------------------- the state
VARIABLES
    dirExists,   \* `notes` is a directory
    files,       \* its entries: name -> File
    config,      \* config.json
    pc,          \* where main is: idle, list, loop, open, dump, done, aborted
    queue,       \* the names the for loop has still to visit
    notes,       \* the list `notes` of build_config_from_notes
    exitStatus,  \* the exit status of the process, -1 while there is none
    error,       \* the class of the exception that ended the run, "" if none
    stderr,      \* what the run wrote to standard error
    stdout,      \* the counts the run printed
    runs,        \* the runs of main started
    edits,       \* the changes made to the file system
    start,       \* the file system when the run started
    reads,       \* the files the run opened
    listed,      \* the run listed the directory
    hist         \* <<directory, config.json>> of every successful run

vars == <<dirExists, files, config, pc, queue, notes, exitStatus, error,
          stderr, stdout, runs, edits, start, reads, listed, hist>>

env == <<dirExists, files>>
ghost == <<runs, edits, start, hist>>

NoFiles == [n \in {} |-> Unreadable]

Directories(names, contents) ==
    UNION {[S -> {File(c) : c \in contents} \cup {Unreadable}] : S \in SUBSET names}

InitProcess ==
    /\ pc = "idle"
    /\ queue = <<>>
    /\ notes = <<>>
    /\ exitStatus = -1
    /\ error = ""
    /\ stderr = ""
    /\ stdout = <<>>
    /\ runs = 0
    /\ edits = 0
    /\ reads = 0
    /\ listed = FALSE
    /\ hist = {}

Init ==
    /\ dirExists \in BOOLEAN
    /\ files \in IF dirExists THEN Directories(DirNames, MainContents) ELSE {NoFiles}
    /\ config \in {NoConfig, StaleConfig}
    /\ start = [dir |-> dirExists, config |-> config]
    /\ InitProcess

\* ------------------------------------------------------------------- main
NoProcess == pc \in {"idle", "done", "aborted"}

\* The process ends on an exception of class cls that nothing catches.
Abort(cls, text) ==
    /\ pc' = "aborted"
    /\ exitStatus' = 1
    /\ error' = cls
    /\ stderr' = text
    /\ queue' = <<>>
    /\ notes' = <<>>

Begin ==
    /\ NoProcess
    /\ runs < MaxRuns
    /\ runs' = runs + 1
    /\ start' = [dir |-> dirExists, config |-> config]
    /\ reads' = 0
    /\ listed' = FALSE
    /\ stdout' = <<>>

\* Mutant of MainNoDir: the missing directory is created and scanned.
MainNoDirCreates ==
    /\ Begin
    /\ ~dirExists
    /\ dirExists' = TRUE
    /\ files' = NoFiles
    /\ pc' = "list"
    /\ exitStatus' = -1
    /\ error' = ""
    /\ stderr' = ""
    /\ queue' = <<>>
    /\ notes' = <<>>
    /\ UNCHANGED <<config, edits, hist>>

\* Lines 97-99, the directory missing: raise SystemExit(message).
MainNoDir ==
    /\ Begin
    /\ ~dirExists
    /\ Abort("SystemExit", "Le repertoire 'notes' n'existe pas")
    /\ UNCHANGED <<env, config, edits, hist>>

\* Lines 97-101, the directory there: call build_config_from_notes.
MainStart ==
    /\ Begin
    /\ dirExists
    /\ pc' = "list"
    /\ exitStatus' = -1
    /\ error' = ""
    /\ stderr' = ""
    /\ queue' = <<>>
    /\ notes' = <<>>
    /\ UNCHANGED <<env, config, edits, hist>>

\* Lines 69-70: notes = [] and sorted(os.listdir(notes_dir)).
ListDir ==
    /\ pc = "list"
    /\ queue' = Sorted(DOMAIN files)
    /\ notes' = <<>>
    /\ listed' = TRUE
    /\ pc' = "loop"
    /\ UNCHANGED <<env, config, exitStatus, error, stderr, stdout, ghost, reads>>

\* Lines 71-72: a name that does not end in .md is passed over.
LoopSkip ==
    /\ pc = "loop"
    /\ queue # <<>>
    /\ ~IsMarkdown(Head(queue))
    /\ queue' = Tail(queue)
    /\ UNCHANGED <<env, config, pc, notes, exitStatus, error, stderr, stdout,
                   ghost, reads, listed>>

\* Mutant of LoopReadError: the failure is caught and the file passed over.
LoopReadErrorSkips ==
    /\ pc = "loop"
    /\ queue # <<>>
    /\ IsMarkdown(Head(queue))
    /\ ~files[Head(queue)].readable
    /\ reads' = reads + 1
    /\ queue' = Tail(queue)
    /\ UNCHANGED <<env, config, pc, notes, exitStatus, error, stderr, stdout,
                   ghost, listed>>

\* Lines 73-75, open() or read() raising: nothing catches the exception.
LoopReadError ==
    /\ pc = "loop"
    /\ queue # <<>>
    /\ IsMarkdown(Head(queue))
    /\ ~files[Head(queue)].readable
    /\ reads' = reads + 1
    /\ Abort("OSError", "Traceback")
    /\ UNCHANGED <<env, config, stdout, ghost, listed>>

\* Lines 77-91, given what parse_markdown_front_matter did: the record is
\* appended (an exception leaving the parser would end the run).
Process(filename, parsed) ==
    IF parsed.exc # <<>>
    THEN /\ Abort(parsed.exc[1], "Traceback")
         /\ UNCHANGED stdout
    ELSE /\ notes' = Append(notes, BuildRecord(parsed.meta, NotesDir, filename))
         /\ queue' = Tail(queue)
         /\ UNCHANGED <<pc, exitStatus, error, stderr, stdout>>

\* Lines 73-91: the file is read and its record appended.
LoopAppend ==
    /\ pc = "loop"
    /\ queue # <<>>
    /\ IsMarkdown(Head(queue))
    /\ files[Head(queue)].readable
    /\ reads' = reads + 1
    /\ Process(Head(queue), parse_markdown_front_matter(files[Head(queue)].content))
    /\ UNCHANGED <<env, config, ghost, listed>>

\* Lines 93 and 101: the loop is over, the configuration is returned.
LoopEnd ==
    /\ pc = "loop"
    /\ queue = <<>>
    /\ pc' = "open"
    /\ UNCHANGED <<env, config, queue, notes, exitStatus, error, stderr,
                   stdout, ghost, reads, listed>>

\* Mutant of OpenConfig: mode 'a', which creates the file but keeps what
\* it holds.
OpenConfigAppend ==
    /\ pc = "open"
    /\ config' = ConfigFile(config.data)
    /\ pc' = "dump"
    /\ UNCHANGED <<env, queue, notes, exitStatus, error, stderr, stdout,
                   ghost, reads, listed>>

\* Line 103: open('config.json', 'w') creates the file or truncates it.
OpenConfig ==
    /\ pc = "open"
    /\ config' = ConfigFile(<<>>)
    /\ pc' = "dump"
    /\ UNCHANGED <<env, queue, notes, exitStatus, error, stderr, stdout,
                   ghost, reads, listed>>

\* Lines 104-106: json.dump writes the whole text, the file is closed and
\* the count printed.
DumpOk ==
    /\ pc = "dump"
    /\ Serializable(notes)
    /\ config' = ConfigFile(config.data \o Written(notes))
    /\ stdout' = <<Len(notes)>>
    /\ pc' = "done"
    /\ exitStatus' = 0
    /\ hist' = hist \cup {<<files, config'.data>>}
    /\ UNCHANGED <<env, queue, notes, error, stderr, runs, edits, start,
                   reads, listed>>

\* Line 104, json.dump raising TypeError: what it wrote before stays in
\* the file, which the with statement closes.
DumpFail ==
    /\ pc = "dump"
    /\ ~Serializable(notes)
    /\ config' = ConfigFile(config.data \o Written(notes))
    /\ Abort("TypeError", "Traceback")
    /\ UNCHANGED <<env, stdout, ghost, reads, listed>>

\* ------------------------------------------------------- the file system
\* Between two runs the user changes the directory.
Edit ==
    /\ NoProcess
    /\ edits < MaxEdits
    /\ edits' = edits + 1
    /\ pc' = "idle"
    /\ UNCHANGED <<config, queue, notes, exitStatus, error, stderr, stdout,
                   runs, start, reads, listed, hist>>

EnvWriteFile ==
    /\ Edit
    /\ dirExists
    /\ \E name \in DirNames, f \in {File(c) : c \in MainContents} \cup {Unreadable} :
          files' = [n \in DOMAIN files \cup {name} |->
                       IF n = name THEN f ELSE files[n]]
    /\ UNCHANGED dirExists

EnvRemoveFile ==
    /\ Edit
    /\ \E name \in DOMAIN files :
          files' = [n \in DOMAIN files \ {name} |-> files[n]]
    /\ UNCHANGED dirExists

EnvRemoveDir ==
    /\ Edit
    /\ dirExists
    /\ dirExists' = FALSE
    /\ files' = NoFiles

EnvMakeDir ==
    /\ Edit
    /\ ~dirExists
    /\ dirExists' = TRUE
    /\ files' = NoFiles

Next ==
    \/ MainNoDir
    \/ MainStart
    \/ ListDir
    \/ LoopSkip
    \/ LoopReadError
    \/ LoopAppend
    \/ LoopEnd
    \/ OpenConfig
    \/ DumpOk
    \/ DumpFail
    \/ EnvWriteFile
    \/ EnvRemoveFile
    \/ EnvRemoveDir
    \/ EnvMakeDir

Spec == Init /\ [][Next]_vars

\* ---------------------------------------------- the record of one file
\* build_config_from_notes at its for loop, over a directory that holds one
\* entry whose name and content are any of FileNames and AllContents, and
\* after it d.md, a note without front-matter.
InitFile ==
    /\ dirExists = TRUE
    /\ files \in {[n \in {name, LaterName} |->
                      IF n = name THEN f ELSE File(PlainContent)] :
                    name \in FileNames,
                    f \in {File(c) : c \in AllContents} \cup {Unreadable}}
    /\ config = NoConfig
    /\ start = [dir |-> TRUE, config |-> NoConfig]
    /\ pc = "loop"
    /\ queue = Sorted(DOMAIN files)
    /\ notes = <<>>
    /\ exitStatus = -1
    /\ error = ""
    /\ stderr = ""
    /\ stdout = <<>>
    /\ runs = 1
    /\ edits = 0
    /\ reads = 0
    /\ listed = TRUE
    /\ hist = {}

NextFile ==
    \/ LoopSkip
    \/ LoopReadError
    \/ LoopAppend
    \/ LoopEnd

SpecFile == InitFile /\ [][NextFile]_vars

\* =================================================================== claims
\* What the claims speak of, stated without the operators of the model.

\* The name, lowercased, ends with .md
MatchesMd(name) ==
    /\ Len(name) >= 3
    /\ name[Len(name) - 2] = "."
    /\ name[Len(name) - 1] \in {"m", "M"}
    /\ name[Len(name)] \in {"d", "D"}

\* s comes before t in code point order.
CodepointLess(s, t) ==
    \E k \in 1..Len(t) :
        /\ k <= Len(s) + 1
        /\ \A i \in 1..(k - 1) : s[i] = t[i]
        /\ k <= Len(s) => Ord[s[k]] < Ord[t[k]]

Matching == {n \in DOMAIN files : MatchesMd(n)}

\* The matching names in ascending order.
Ascending(names) ==
    CHOOSE seq \in [1..Cardinality(names) -> names] :
        \A i, j \in 1..Cardinality(names) : i < j => CodepointLess(seq[i], seq[j])

\* build_config_from_notes has returned.
Built == pc \in {"open", "dump", "done"}

\* The name with its last three characters, the matched .md, taken off.
WithoutMd(name) == SubSeq(name, 1, Len(name) - 3)

\* The name up to its last dot, or the whole name when only dots come
\* before that dot.
RootOf(name) ==
    LET dots == {i \in 1..Len(name) : name[i] = "."}
        last == CHOOSE i \in dots : \A j \in dots : j <= i
    IN  IF dots # {} /\ \E i \in 1..(last - 1) : name[i] # "."
        THEN SubSeq(name, 1, last - 1)
        ELSE name

\* In the directory of one file and d.md: the file that is not d.md.
Subject == CHOOSE n \in DOMAIN files : n # LaterName
SubjectRead == MatchesMd(Subject) /\ files[Subject].readable
\* The for loop has gone past the subject.
SubjectDone == pc # "loop" \/ Len(queue) <= 1
SubjectBuilt == SubjectRead /\ SubjectDone /\ Len(notes) >= 1
SubjectMeta == parse_markdown_front_matter(files[Subject].content).meta

\* ------------------------------------------------------------------- C1
\* C1 (as claimed): once build_config_from_notes has returned, notes holds
\* one record per entry whose lowercased name ends with .md and none for
\* another entry, in ascending code point order of the names, record i with
\* file = directory + '/' + the i-th such name; equal ids do not merge.
C1_Original ==
    Built =>
        /\ Len(notes) = Cardinality(Matching)
        /\ \A i \in 1..Len(notes) :
              notes[i].file = NotesDir \o <<"/">> \o Ascending(Matching)[i]

\* C1 but for the path: the same, with the file compared after every
\* backslash of the name has become a slash.
C1_ButPath ==
    Built =>
        /\ Len(notes) = Cardinality(Matching)
        /\ \A i \in 1..Len(notes) :
              notes[i].file =
                  [k \in 1..(Len(NotesDir) + 1 + Len(Ascending(Matching)[i])) |->
                      IF (NotesDir \o <<"/">> \o Ascending(Matching)[i])[k] = "\\"
                      THEN "/"
                      ELSE (NotesDir \o <<"/">> \o Ascending(Matching)[i])[k]]

\* Two records with the same id, beside an entry that is no note.
C1_Witness ==
    /\ Built
    /\ Len(notes) = 2
    /\ notes[1].id = notes[2].id
    /\ \E n \in DOMAIN files : ~MatchesMd(n)

\* ------------------------------------------------------------------- C2
\* What C2 says of the record rec of a file called name with front-matter
\* meta, the name without its extension being root.
C2_Holds(rec, meta, root) ==
    /\ rec.id = IF "id" \in DOMAIN meta /\ meta["id"].t = "str"
                THEN meta["id"].s ELSE root
    /\ rec.title = IF "title" \in DOMAIN meta /\ meta["title"].t = "str"
                   THEN meta["title"].s ELSE rec.id

\* C2 (as claimed): id is the front-matter id when it is a string and else
\* the file name without its extension, for every name that passes the .md
\* filter; title is the front-matter title when it is a string, else id.
C2_Original ==
    SubjectBuilt => C2_Holds(notes[1], SubjectMeta, WithoutMd(Subject))

\* C2 (amended): the same, the name without its extension being the name up
\* to its last dot, and the whole name when only dots come before that dot
\* (a file called .md gets the id .md).
C2_Amended ==
    SubjectBuilt => C2_Holds(notes[1], SubjectMeta, RootOf(Subject))

\* A file without front-matter whose name is nothing but the extension.
C2_Witness ==
    /\ SubjectBuilt
    /\ Subject = <<".", "m", "d">>
    /\ SubjectMeta = EmptyMap
    /\ notes[1].id = Subject
    /\ notes[1].title = Subject

\* ------------------------------------------------------------------- C3
C3_Field(rec, meta, key) ==
    /\ key \in DOMAIN rec
    /\ rec[key] = IF key \in DOMAIN meta /\ meta[key].t = "list"
                  THEN meta[key].items ELSE <<>>

\* C3: every record has tags and links; a key that is absent or whose value
\* is no list gives the empty sequence and raises nothing; a list is kept
\* in its order.
C3_TagsLinks ==
    /\ \A i \in 1..Len(notes) : {"tags", "links"} \subseteq DOMAIN notes[i]
    /\ (SubjectRead /\ SubjectDone) =>
          /\ pc # "aborted"
          /\ Len(notes) >= 1
          /\ C3_Field(notes[1], SubjectMeta, "tags")
          /\ C3_Field(notes[1], SubjectMeta, "links")

\* tags given as a string and links as a list of two.
C3_Witness ==
    /\ SubjectBuilt
    /\ "tags" \in DOMAIN SubjectMeta
    /\ SubjectMeta["tags"].t = "str"
    /\ notes[1].tags = <<>>
    /\ "links" \in DOMAIN SubjectMeta
    /\ Len(notes[1].links) = 2
    /\ notes[1].links[1].s = <<"b">>

\* ------------------------------------------------------------------- C4
\* C4 (as claimed): every element of tags and of links of every record is a
\* string.
C4_Original ==
    \A i \in 1..Len(notes) :
        /\ \A k \in 1..Len(notes[i].tags) : notes[i].tags[k].t = "str"
        /\ \A k \in 1..Len(notes[i].links) : notes[i].links[k].t = "str"

\* ------------------------------------------------------------------- C5
\* The content falls under one of the four cases of C5.
C5_Case(content) ==
    \/ ~(Len(content) >= 3 /\ SubSeq(content, 1, 3) = Dashes)
    \/ Len(Split3(content)) < 3
    \/ SafeLoad(Split3(content)[2]).kind \in {"error", "other"}

\* C5: the parser raises for no content and returns the empty mapping in
\* the four cases; the scan goes on, the file gets the record of a file
\* without front-matter and the later file is processed.
C5_NeverAborts ==
    (SubjectRead /\ SubjectDone) =>
        /\ error = ""
        /\ Len(notes) >= 1
        /\ C5_Case(files[Subject].content) =>
              /\ SubjectMeta = EmptyMap
              /\ notes[1] = NoteRecord(NotesDir, Subject, PlainContent)
              /\ notes[1].tags = <<>> /\ notes[1].links = <<>>
        /\ (pc = "open" => Len(notes) = 2 /\ notes[2].id = <<"d">>)

\* A front-matter whose parsing raises ValueError, and d.md processed
\* after it.
C5_Witness ==
    /\ SubjectRead
    /\ pc = "open"
    /\ Len(Split3(files[Subject].content)) = 3
    /\ SafeLoad(Split3(files[Subject].content)[2]).exc = <<"ValueError">>
    /\ Len(notes) = 2

\* ------------------------------------------------------------------- C9
\* The front-matter of a content whose block is delimited by lines that
\* are '---' and nothing else.
LineMeta(lines) ==
    IF lines[1] # Dashes \/ \A j \in 2..Len(lines) : lines[j] # Dashes
    THEN EmptyMap
    ELSE MetaOf(ValuesOf(SelectSeq(
            SubSeq(lines, 2,
                   (CHOOSE j \in 2..Len(lines) :
                       lines[j] = Dashes /\ \A k \in 2..(j - 1) : lines[k] # Dashes) - 1),
            NonEmpty))).meta

\* C9 (as claimed): the metadata are those of the text between an opening
\* line '---' and the next line '---'.
C9_Original ==
    SubjectBuilt =>
        notes[1] = BuildRecord(LineMeta(SplitOn(files[Subject].content, "\n")),
                               NotesDir, Subject)

\* ------------------------------------------------------------------- C6
\* C6: with no directory `notes` when main starts, the run ends at once,
\* with a message and a non-zero status, nothing listed or read, the
\* directory not created and config.json as it was.
C6_NoDirectory ==
    (~start.dir /\ runs > 0 /\ pc # "idle") =>
        /\ pc = "aborted"
        /\ exitStatus > 0
        /\ stderr # ""
        /\ ~listed
        /\ reads = 0
        /\ ~dirExists
        /\ config = start.config

\* The run that aborts leaves the config.json of an earlier run.
C6_Witness ==
    /\ ~start.dir
    /\ pc = "aborted"
    /\ error = "SystemExit"
    /\ config = StaleConfig

\* ------------------------------------------------------------------- C7
\* C7: a read that fails is not caught; the run aborts with config.json as
\* it was and the records built before are lost.
C7_ReadFailure ==
    /\ (pc = "aborted" /\ error = "OSError") =>
          /\ config = start.config
          /\ notes = <<>>
          /\ exitStatus > 0
    /\ Built => \A n \in Matching : files[n].readable
    /\ pc \in {"list", "loop"} => config = start.config

\* The second file read fails, a config.json being there.
C7_Witness ==
    /\ pc = "aborted"
    /\ error = "OSError"
    /\ reads = 2
    /\ config = StaleConfig

\* ------------------------------------------------------------------- C8
\* The config.json of a successful run over the directory dir.
ConfigOf(dir) ==
    Serialize([i \in 1..Cardinality({n \in DOMAIN dir : MatchesMd(n)}) |->
                  NoteRecord(NotesDir,
                             Ascending({n \in DOMAIN dir : MatchesMd(n)})[i],
                             dir[Ascending({n \in DOMAIN dir : MatchesMd(n)})[i]].content)])

\* C8: after a successful run config.json is a function of the directory
\* alone, whatever it held before, and runs over the same directory leave
\* the same config.json.
C8_FunctionOfNotes ==
    /\ pc = "done" => config = ConfigFile(ConfigOf(files))
    /\ \A g, h \in hist : g[1] = h[1] => g[2] = h[2]

\* A second successful run over the unchanged directory, which holds a
\* note, leaves the config.json that the first run wrote.
C8_Witness ==
    /\ pc = "done"
    /\ runs = 2
    /\ edits = 0
    /\ Len(notes) >= 1
    /\ config = start.config
    /\ config # StaleConfig

\* ------------------------------------------------------------------ C10
\* C10 (as claimed): a run that aborts, for whatever reason, leaves
\* config.json as it was when the run started.
C10_Original ==
    pc = "aborted" => config = start.config

====
